---- MODULE Spec2Model ----
(***************************************************************************)
(* A model of symbolic_math.hpp: identity tags, binding lookup, the        *)
(* expression nodes, the composition operators, numeric evaluation and     *)
(* symbolic rendering.                                                     *)
(*                                                                         *)
(* A double is modelled as a signed fraction n/d: d >= 1 is a finite       *)
(* value (0/1 is a zero, which keeps its sign), 1/0 is an infinity and 0/0 *)
(* is NaN.  The arithmetic follows IEEE-754 for signs, zeros, infinities   *)
(* and NaN; finite results are exact (no rounding, no overflow).           *)
(* A std::string is modelled as a sequence of one-character strings.       *)
(***************************************************************************)
EXTENDS Integers, Sequences, FiniteSets, TLC

VARIABLES scope, f, call

vars == <<scope, f, call>>

(***************************************************************************)
(* Bounds of the model.                                                    *)
(***************************************************************************)
\* binary nodes in an expression
MaxOps == 2
\* entries in a Binding Set handed to evaluate
MaxBind == 2
\* entries in a Naming Set handed to symbolic_evaluate
MaxNamed == 2
\* declarations in the caller's scope while composing
MaxDecl == 2

(***************************************************************************)
(* double                                                                  *)
(***************************************************************************)
RECURSIVE Gcd(_, _)
Gcd(a, b) == IF b = 0 THEN a ELSE Gcd(b, a % b)

\* the double with sign neg and magnitude n/d, in lowest terms
Dbl(neg, n, d) ==
  IF n = 0 /\ d = 0 THEN [neg |-> FALSE, n |-> 0, d |-> 0]
  ELSE LET g == Gcd(n, d) IN [neg |-> neg, n |-> n \div g, d |-> d \div g]

\* the double of an integer literal
D(i) == IF i < 0 THEN Dbl(TRUE, -i, 1) ELSE Dbl(FALSE, i, 1)

NaN == Dbl(FALSE, 0, 0)
PosInf == Dbl(FALSE, 1, 0)
NegInf == Dbl(TRUE, 1, 0)
Half == Dbl(FALSE, 1, 2)

IsNaN(v) == v.n = 0 /\ v.d = 0
IsInf(v) == v.n # 0 /\ v.d = 0
IsZero(v) == v.n = 0 /\ v.d # 0
IsFinite(v) == v.d # 0

Negate(v) == IF IsNaN(v) THEN v ELSE [v EXCEPT !.neg = ~v.neg]

\* a + b
DAdd(a, b) ==
  IF IsNaN(a) \/ IsNaN(b) THEN NaN
  ELSE IF IsInf(a) /\ IsInf(b) THEN (IF a.neg = b.neg THEN a ELSE NaN)
  ELSE IF IsInf(a) THEN a
  ELSE IF IsInf(b) THEN b
  ELSE LET sa == IF a.neg THEN -1 ELSE 1
           sb == IF b.neg THEN -1 ELSE 1
           s == sa * a.n * b.d + sb * b.n * a.d
       IN IF s = 0 THEN Dbl(a.neg /\ b.neg, 0, 1)
          ELSE IF s < 0 THEN Dbl(TRUE, -s, a.d * b.d)
          ELSE Dbl(FALSE, s, a.d * b.d)

\* a - b
DSub(a, b) == DAdd(a, Negate(b))

\* a * b
DMul(a, b) == Dbl(a.neg # b.neg, a.n * b.n, a.d * b.d)

\* a / b
DDiv(a, b) == Dbl(a.neg # b.neg, a.n * b.d, a.d * b.n)

(***************************************************************************)
(* std::string and std::format("{}", double)                               *)
(***************************************************************************)
DigitChar(k) == <<"0", "1", "2", "3", "4", "5", "6", "7", "8", "9">>[k + 1]

RECURSIVE IntDigits(_)
IntDigits(n) == IF n < 10 THEN <<DigitChar(n)>>
                ELSE IntDigits(n \div 10) \o <<DigitChar(n % 10)>>

\* the decimal digits of r/d, 0 <= r < d, d a product of twos and fives
RECURSIVE FracDigits(_, _)
FracDigits(r, d) == IF r = 0 THEN <<>>
                    ELSE <<DigitChar((r * 10) \div d)>> \o FracDigits((r * 10) % d, d)

\* std::format("{}", value): the shortest decimal text that reads back as value
Format(v) ==
  LET sign == IF v.neg THEN <<"-">> ELSE <<>>
  IN IF IsNaN(v) THEN <<"n", "a", "n">>
     ELSE IF IsInf(v) THEN sign \o <<"i", "n", "f">>
     ELSE IF v.n % v.d = 0 THEN sign \o IntDigits(v.n \div v.d)
     ELSE sign \o IntDigits(v.n \div v.d) \o <<".">> \o FracDigits(v.n % v.d, v.d)

(***************************************************************************)
(* Tag, Binding, SymbolicBinding and the two lookups                       *)
(***************************************************************************)
Binding(tag, value) == [tag |-> tag, value |-> value]

SymbolicBinding(tag, name) == [tag |-> tag, name |-> name]

\* the outcome of a call that returns a double or throws std::logic_error
Returned(v) == [threw |-> FALSE, value |-> v]
LogicError == [threw |-> TRUE, value |-> NaN]

\* mutant: an unresolved tag is defaulted to 0.0 instead of thrown
BindingScanDefaulted(tag, symbolic_bindings, i) ==
  LET hits == {k \in i..Len(symbolic_bindings) : symbolic_bindings[k].tag = tag}
  IN IF hits = {} THEN Returned(D(0))
     ELSE Returned(symbolic_bindings[CHOOSE k \in hits : \A j \in hits : k <= j].value)

\* mutant: the last matching entry wins
BindingScanLast(tag, symbolic_bindings, i) ==
  LET hits == {k \in i..Len(symbolic_bindings) : symbolic_bindings[k].tag = tag}
  IN IF hits = {} THEN LogicError
     ELSE Returned(symbolic_bindings[CHOOSE k \in hits : \A j \in hits : k >= j].value)

\* the for loop of get_binding_value, from entry i on
RECURSIVE BindingScan(_, _, _)
BindingScan(tag, symbolic_bindings, i) ==
  IF i > Len(symbolic_bindings) THEN LogicError
  ELSE IF symbolic_bindings[i].tag = tag THEN Returned(symbolic_bindings[i].value)
  ELSE BindingScan(tag, symbolic_bindings, i + 1)

get_binding_value(tag, symbolic_bindings) == BindingScan(tag, symbolic_bindings, 1)

\* mutant: the last matching entry wins
NameScanLast(tag, symbolic_bindings, i) ==
  LET hits == {k \in i..Len(symbolic_bindings) : symbolic_bindings[k].tag = tag}
  IN IF hits = {} THEN <<>>
     ELSE symbolic_bindings[CHOOSE k \in hits : \A j \in hits : k >= j].name

\* mutant: an unresolved tag gets a placeholder
NameScanPlaceholder(tag, symbolic_bindings, i) ==
  LET hits == {k \in i..Len(symbolic_bindings) : symbolic_bindings[k].tag = tag}
  IN IF hits = {} THEN <<"?">>
     ELSE symbolic_bindings[CHOOSE k \in hits : \A j \in hits : k <= j].name

\* the for loop of get_symbolic_binding_name, from entry i on
RECURSIVE NameScan(_, _, _)
NameScan(tag, symbolic_bindings, i) ==
  IF i > Len(symbolic_bindings) THEN <<>>
  ELSE IF symbolic_bindings[i].tag = tag THEN symbolic_bindings[i].name
  ELSE NameScan(tag, symbolic_bindings, i + 1)

get_symbolic_binding_name(tag, symbolic_bindings) == NameScan(tag, symbolic_bindings, 1)

(***************************************************************************)
(* Nodes                                                                   *)
(***************************************************************************)
\* the tag of the one Constant type that make_constant returns
MakeConstantTag == 0

Symbol(tag) == [kind |-> "Symbol", tag |-> tag]

Constant(tag, v) == [kind |-> "Constant", tag |-> tag, value |-> v]

\* a bare double held as an operand (LHS or RHS deduced as double)
BareDouble(v) == [kind |-> "double", value |-> v]

Add(lhs, rhs) == [kind |-> "Add", lhs |-> lhs, rhs |-> rhs]
Subtract(lhs, rhs) == [kind |-> "Subtract", lhs |-> lhs, rhs |-> rhs]
Multiply(lhs, rhs) == [kind |-> "Multiply", lhs |-> lhs, rhs |-> rhs]
Divide(lhs, rhs) == [kind |-> "Divide", lhs |-> lhs, rhs |-> rhs]

BinaryKinds == {"Add", "Subtract", "Multiply", "Divide"}
IsBinary(e) == e.kind \in BinaryKinds
IsLeaf(e) == e.kind \in {"Symbol", "Constant"}

\* e has the members evaluate and symbolic_evaluate, and so has every operand
\* below it: the calls on e compile
RECURSIVE IsNode(_)
IsNode(e) == IF IsBinary(e) THEN IsNode(e.lhs) /\ IsNode(e.rhs) ELSE IsLeaf(e)

RECURSIVE OpCount(_)
OpCount(e) == IF IsBinary(e) THEN 1 + OpCount(e.lhs) + OpCount(e.rhs) ELSE 0

RECURSIVE Leaves(_)
Leaves(e) == IF IsBinary(e) THEN Leaves(e.lhs) \cup Leaves(e.rhs) ELSE {e}

RECURSIVE SubNodes(_)
SubNodes(e) == IF IsBinary(e) THEN {e} \cup SubNodes(e.lhs) \cup SubNodes(e.rhs) ELSE {e}

(***************************************************************************)
(* evaluate                                                                *)
(***************************************************************************)
SymbolEvaluate(e, bindings) == get_binding_value(e.tag, bindings)

ConstantEvaluate(e, bindings) == Returned(e.value)

\* l op r, where an exception thrown by either operand leaves the function
Lift(l, r, v) == IF l.threw \/ r.threw THEN LogicError ELSE Returned(v)

AddEvaluate(l, r) == Lift(l, r, DAdd(l.value, r.value))
\* mutant: the operands of the subtraction are exchanged
SubtractEvaluateSwapped(l, r) == Lift(l, r, DSub(r.value, l.value))

SubtractEvaluate(l, r) == Lift(l, r, DSub(l.value, r.value))
MultiplyEvaluate(l, r) == Lift(l, r, DMul(l.value, r.value))
\* mutant: a zero divisor is an error
DivideEvaluateChecked(l, r) ==
  IF l.threw \/ r.threw \/ IsZero(r.value) THEN LogicError
  ELSE Returned(DDiv(l.value, r.value))

DivideEvaluate(l, r) == Lift(l, r, DDiv(l.value, r.value))

RECURSIVE evaluate(_, _)
evaluate(e, bindings) ==
  CASE e.kind = "Symbol" -> SymbolEvaluate(e, bindings)
    [] e.kind = "Constant" -> ConstantEvaluate(e, bindings)
    [] e.kind = "Add" -> AddEvaluate(evaluate(e.lhs, bindings), evaluate(e.rhs, bindings))
    [] e.kind = "Subtract" -> SubtractEvaluate(evaluate(e.lhs, bindings), evaluate(e.rhs, bindings))
    [] e.kind = "Multiply" -> MultiplyEvaluate(evaluate(e.lhs, bindings), evaluate(e.rhs, bindings))
    [] e.kind = "Divide" -> DivideEvaluate(evaluate(e.lhs, bindings), evaluate(e.rhs, bindings))

(***************************************************************************)
(* symbolic_evaluate                                                       *)
(***************************************************************************)
SymbolSymbolicEvaluate(e, symbolic_bindings) ==
  get_symbolic_binding_name(e.tag, symbolic_bindings)

\* mutant: no fallback to the number when the name is empty
ConstantSymbolicEvaluateNameOnly(e, symbolic_bindings) ==
  get_symbolic_binding_name(e.tag, symbolic_bindings)

ConstantSymbolicEvaluate(e, symbolic_bindings) ==
  LET name == get_symbolic_binding_name(e.tag, symbolic_bindings)
  IN IF Len(name) = 0 THEN Format(e.value) ELSE name

AddSymbolicEvaluate(l, r) == <<"(">> \o l \o <<" ", "+", " ">> \o r \o <<")">>
SubtractSymbolicEvaluate(l, r) == <<"(">> \o l \o <<" ", "-", " ">> \o r \o <<")">>
\* mutant: a product is written without its parentheses
MultiplySymbolicEvaluateBare(l, r) == l \o <<" ", "*", " ">> \o r

MultiplySymbolicEvaluate(l, r) == <<"(">> \o l \o <<" ", "*", " ">> \o r \o <<")">>
DivideSymbolicEvaluate(l, r) == <<"(">> \o l \o <<" ", "/", " ">> \o r \o <<")">>

RECURSIVE symbolic_evaluate(_, _)
symbolic_evaluate(e, sb) ==
  CASE e.kind = "Symbol" -> SymbolSymbolicEvaluate(e, sb)
    [] e.kind = "Constant" -> ConstantSymbolicEvaluate(e, sb)
    [] e.kind = "Add" -> AddSymbolicEvaluate(symbolic_evaluate(e.lhs, sb), symbolic_evaluate(e.rhs, sb))
    [] e.kind = "Subtract" -> SubtractSymbolicEvaluate(symbolic_evaluate(e.lhs, sb), symbolic_evaluate(e.rhs, sb))
    [] e.kind = "Multiply" -> MultiplySymbolicEvaluate(symbolic_evaluate(e.lhs, sb), symbolic_evaluate(e.rhs, sb))
    [] e.kind = "Divide" -> DivideSymbolicEvaluate(symbolic_evaluate(e.lhs, sb), symbolic_evaluate(e.rhs, sb))

(***************************************************************************)
(* The composition operators                                               *)
(***************************************************************************)
make_constant(d) == Constant(MakeConstantTag, d)

\* template <LHS, RHS> operator+, operator-, operator*, operator/
OperatorAdd(lhs, rhs) == Add(lhs, rhs)
OperatorSubtract(lhs, rhs) == Subtract(lhs, rhs)
OperatorMultiply(lhs, rhs) == Multiply(lhs, rhs)
OperatorDivide(lhs, rhs) == Divide(lhs, rhs)

\* operator*(double, T), operator*(T, double), operator+(double, T), operator+(T, double)
OperatorMultiplyDT(d, expression) == Multiply(make_constant(d), expression)
OperatorMultiplyTD(expr, d) == Multiply(expr, make_constant(d))
OperatorAddDT(d, expression) == Add(make_constant(d), expression)
OperatorAddTD(expression, d) == Add(expression, make_constant(d))

\* Expression<E>: the handle that forwards both calls to e
ExpressionEvaluate(e, bindings) == evaluate(e, bindings)
ExpressionSymbolicEvaluate(e, symbolic_bindings) == symbolic_evaluate(e, symbolic_bindings)

(***************************************************************************)
(* The caller: declarations, composition, and the calls on the expression  *)
(* f.  The values a caller writes are drawn from small sets.               *)
(***************************************************************************)
\* the double literals a caller writes as operands and as constants
Literals == {D(2), Half}

\* the values a caller binds
BindValues == {D(0), D(1)}

\* the names a caller gives to a symbol and to a constant
SymbolNames == {<<>>, <<"x">>, <<"(", "z", ")">>}
ConstantNames == {<<>>, <<"p", "i">>}
NamesOf(x) == IF x.kind = "Symbol" THEN SymbolNames ELSE ConstantNames

NoExpr == [kind |-> "none"]

NoCall == [op |-> "none", bindings |-> <<>>, namings |-> <<>>,
           result |-> LogicError, text |-> <<>>]

Declared == {scope[i] : i \in 1..Len(scope)}

\* the nodes a caller can name as an operand
Operands == Declared \cup (IF f = NoExpr THEN {} ELSE {f})

\* x = 4.0: Symbol::operator=(double) makes the Binding of a symbol
SymbolAssignDouble(x, v) == Binding(x.tag, v)

\* x = "x", pi = "pi": operator=(std::string) of a Symbol or a Constant
NodeAssignString(x, n) == SymbolicBinding(x.tag, n)

Bindable == {x \in Declared \cup Leaves(f) : x.kind = "Symbol"}

Nameable == {x \in Declared \cup Leaves(f) : IsLeaf(x)}

SeqsUpTo(S, n) == UNION {[1..k -> S] : k \in 0..n}

BindingSets ==
  SeqsUpTo({SymbolAssignDouble(x, v) : x \in Bindable, v \in BindValues}, MaxBind)

NamingSets ==
  SeqsUpTo(UNION {{NodeAssignString(x, n) : n \in NamesOf(x)} : x \in Nameable}, MaxNamed)

Building == call.op = "none"

\* the expression becomes e
Becomes(e) ==
  /\ OpCount(e) <= MaxOps
  /\ f' = e
  /\ UNCHANGED <<scope, call>>

\* constexpr Symbol x;
DeclareSymbol ==
  /\ Building
  /\ Len(scope) < MaxDecl
  /\ scope' = Append(scope, Symbol(Len(scope) + 1))
  /\ UNCHANGED <<f, call>>

\* constexpr Constant c = d;
DeclareConstant ==
  /\ Building
  /\ Len(scope) < MaxDecl
  /\ \E d \in Literals : scope' = Append(scope, Constant(Len(scope) + 1, d))
  /\ UNCHANGED <<f, call>>

\* a + b, a - b, a * b, a / b with both operands of class type
ComposeAdd == Building /\ \E l \in Operands, r \in Operands : Becomes(OperatorAdd(l, r))
ComposeSubtract == Building /\ \E l \in Operands, r \in Operands : Becomes(OperatorSubtract(l, r))
ComposeMultiply == Building /\ \E l \in Operands, r \in Operands : Becomes(OperatorMultiply(l, r))
ComposeDivide == Building /\ \E l \in Operands, r \in Operands : Becomes(OperatorDivide(l, r))

\* a + 2.0, 2.0 + a, a * 2.0, 2.0 * a: the overloads taking a double are the
\* more specialised and are chosen
ComposeAddTD == Building /\ \E l \in Operands, d \in Literals : Becomes(OperatorAddTD(l, d))
ComposeAddDT == Building /\ \E d \in Literals, r \in Operands : Becomes(OperatorAddDT(d, r))
ComposeMultiplyTD == Building /\ \E l \in Operands, d \in Literals : Becomes(OperatorMultiplyTD(l, d))
ComposeMultiplyDT == Building /\ \E d \in Literals, r \in Operands : Becomes(OperatorMultiplyDT(d, r))

\* a - 2.0, 2.0 - a, a / 2.0, 2.0 / a: only the two-parameter template is
\* there, and it deduces double for the literal
ComposeSubtractTD ==
  Building /\ \E l \in Operands, d \in Literals : Becomes(OperatorSubtract(l, BareDouble(d)))
ComposeSubtractDT ==
  Building /\ \E d \in Literals, r \in Operands : Becomes(OperatorSubtract(BareDouble(d), r))
ComposeDivideTD ==
  Building /\ \E l \in Operands, d \in Literals : Becomes(OperatorDivide(l, BareDouble(d)))
ComposeDivideDT ==
  Building /\ \E d \in Literals, r \in Operands : Becomes(OperatorDivide(BareDouble(d), r))

\* f.evaluate({...}): compiles only when every operand has evaluate
CallEvaluate ==
  /\ Building
  /\ f # NoExpr /\ IsNode(f)
  /\ \E b \in BindingSets :
       call' = [NoCall EXCEPT !.op = "evaluate", !.bindings = b,
                              !.result = ExpressionEvaluate(f, b)]
  /\ UNCHANGED <<scope, f>>

\* f.symbolic_evaluate({...})
CallSymbolicEvaluate ==
  /\ Building
  /\ f # NoExpr /\ IsNode(f)
  /\ \E n \in NamingSets :
       call' = [NoCall EXCEPT !.op = "symbolic_evaluate", !.namings = n,
                              !.text = ExpressionSymbolicEvaluate(f, n)]
  /\ UNCHANGED <<scope, f>>

\* the caller is done with the result
Discard ==
  /\ ~Building
  /\ call' = NoCall
  /\ UNCHANGED <<scope, f>>

\* Expression e = x; the handle on a single leaf, declared or made by make_constant
WrapLeaf ==
  /\ Building
  /\ \E x \in Declared \cup {make_constant(d) : d \in Literals} : f' = x
  /\ UNCHANGED <<scope, call>>

\* nothing declared yet
Init ==
  /\ scope = <<>>
  /\ f = NoExpr
  /\ call = NoCall

\* the symbols declared, as main does before it composes
InitEvaluate ==
  /\ scope = <<Symbol(1), Symbol(2)>>
  /\ f = NoExpr
  /\ call = NoCall

InitRender ==
  /\ scope = <<Symbol(1), Constant(2, Half)>>
  /\ f = NoExpr
  /\ call = NoCall

InitLeaf ==
  /\ scope = <<Symbol(1), Symbol(2), Constant(3, D(10)), Constant(4, Half)>>
  /\ f = NoExpr
  /\ call = NoCall

NextCompose ==
  \/ DeclareSymbol \/ DeclareConstant
  \/ ComposeAdd \/ ComposeSubtract \/ ComposeMultiply \/ ComposeDivide
  \/ ComposeAddTD \/ ComposeAddDT \/ ComposeMultiplyTD \/ ComposeMultiplyDT
  \/ ComposeSubtractTD \/ ComposeSubtractDT \/ ComposeDivideTD \/ ComposeDivideDT

NextEvaluate ==
  \/ ComposeAdd \/ ComposeSubtract \/ ComposeMultiply \/ ComposeDivide
  \/ ComposeMultiplyDT
  \/ CallEvaluate \/ Discard

NextRender ==
  \/ ComposeAdd \/ ComposeSubtract \/ ComposeMultiply \/ ComposeDivide
  \/ CallSymbolicEvaluate \/ Discard

NextLeaf == WrapLeaf \/ CallEvaluate \/ CallSymbolicEvaluate \/ Discard

SpecCompose == Init /\ [][NextCompose]_vars
SpecEvaluate == InitEvaluate /\ [][NextEvaluate]_vars
SpecRender == InitRender /\ [][NextRender]_vars
SpecLeaf == InitLeaf /\ [][NextLeaf]_vars

(***************************************************************************)
(* Properties                                                              *)
(***************************************************************************)
HasEntry(tag, entries) == \E i \in 1..Len(entries) : entries[i].tag = tag

\* the earliest entry with this tag
FirstEntry(tag, entries) ==
  entries[CHOOSE i \in 1..Len(entries) :
            /\ entries[i].tag = tag
            /\ \A j \in 1..(i - 1) : entries[j].tag # tag]

Duplicated(tag, entries) ==
  Cardinality({i \in 1..Len(entries) : entries[i].tag = tag}) > 1

SymbolsOf(e) == {x \in Leaves(e) : x.kind = "Symbol"}

Evaluated == call.op = "evaluate"
Rendered == call.op = "symbolic_evaluate"

AllBound == \A x \in SymbolsOf(f) : HasEntry(x.tag, call.bindings)

\* what the call made of the subtree n of f
ValueOf(n) == IF n = f THEN call.result ELSE ExpressionEvaluate(n, call.bindings)
TextOf(n) == IF n = f THEN call.text ELSE ExpressionSymbolicEvaluate(n, call.namings)

OpSymbol(kind) ==
  CASE kind = "Add" -> "+"
    [] kind = "Subtract" -> "-"
    [] kind = "Multiply" -> "*"
    [] kind = "Divide" -> "/"

CountChar(c, text) == Cardinality({i \in 1..Len(text) : text[i] = c})

\* C1: evaluate on an expression holding a Symbol whose tag has no entry in
\* the Binding Set throws the unresolved-symbol error and returns no number,
\* whatever the other operands are worth.
C1_MissingBindingThrows ==
  (Evaluated /\ \E x \in SymbolsOf(f) : ~HasEntry(x.tag, call.bindings))
    => call.result.threw

\* x * y or x / y with x unbound and y bound to zero: the call threw
C1_Witness ==
  /\ Evaluated
  /\ f.kind \in {"Multiply", "Divide"}
  /\ f.lhs = Symbol(1) /\ f.rhs = Symbol(2)
  /\ ~HasEntry(1, call.bindings)
  /\ HasEntry(2, call.bindings)
  /\ FirstEntry(2, call.bindings).value = D(0)
  /\ call.result.threw

\* the arithmetic value of e by structural recursion
RECURSIVE DirectValue(_, _)
DirectValue(e, b) ==
  CASE e.kind = "Symbol" -> FirstEntry(e.tag, b).value
    [] e.kind = "Constant" -> e.value
    [] e.kind = "Add" -> DAdd(DirectValue(e.lhs, b), DirectValue(e.rhs, b))
    [] e.kind = "Subtract" -> DSub(DirectValue(e.lhs, b), DirectValue(e.rhs, b))
    [] e.kind = "Multiply" -> DMul(DirectValue(e.lhs, b), DirectValue(e.rhs, b))
    [] e.kind = "Divide" -> DDiv(DirectValue(e.lhs, b), DirectValue(e.rhs, b))

\* C2: with every symbol of the expression bound, evaluate returns the value
\* of direct arithmetic by structural recursion: a Symbol its bound value, a
\* Constant its stored value, a binary node left op right in that order.
C2_EvaluateIsDirectArithmetic ==
  (Evaluated /\ AllBound) => call.result = Returned(DirectValue(f, call.bindings))

\* (2 * x) - y with x = 1 and y = 1 is 1
C2_Witness ==
  /\ Evaluated
  /\ f = Subtract(Multiply(make_constant(D(2)), Symbol(1)), Symbol(2))
  /\ HasEntry(1, call.bindings) /\ FirstEntry(1, call.bindings).value = D(1)
  /\ HasEntry(2, call.bindings) /\ FirstEntry(2, call.bindings).value = D(1)
  /\ call.result = Returned(D(1))

\* the text of e, fully parenthesized
RECURSIVE Parenthesized(_, _)
Parenthesized(e, n) ==
  IF IsBinary(e)
    THEN <<"(">> \o Parenthesized(e.lhs, n) \o <<" ", OpSymbol(e.kind), " ">>
           \o Parenthesized(e.rhs, n) \o <<")">>
    ELSE ExpressionSymbolicEvaluate(e, n)

\* the occurrences of c in the texts of the leaves of e
RECURSIVE LeafChars(_, _, _)
LeafChars(c, e, n) ==
  IF IsBinary(e) THEN LeafChars(c, e.lhs, n) + LeafChars(c, e.rhs, n)
  ELSE CountChar(c, ExpressionSymbolicEvaluate(e, n))

\* C3: a binary node renders as "(" left " " op " " right ")" with op one of
\* + - * /: the text of an expression has one pair of parentheses for each
\* binary node (beside those in the leaves' own texts), in operand order.
C3_FullyParenthesized ==
  Rendered =>
    /\ call.text = Parenthesized(f, call.namings)
    /\ CountChar("(", call.text) = OpCount(f) + LeafChars("(", f, call.namings)
    /\ CountChar(")", call.text) = OpCount(f) + LeafChars(")", f, call.namings)

\* x + (0.5 * x) with x named "x" renders as "(x + (0.5 * x))"
C3_Witness ==
  /\ Rendered
  /\ f = Add(Symbol(1), Multiply(Constant(2, Half), Symbol(1)))
  /\ call.namings = <<SymbolicBinding(1, <<"x">>)>>
  /\ call.text = <<"(", "x", " ", "+", " ", "(", "0", ".", "5", " ", "*", " ", "x", ")", ")">>

\* C4: when a Binding Set or a Naming Set holds several entries with the tag
\* looked up, the earliest one decides what evaluate and symbolic_evaluate
\* give for the leaf.
C4_FirstMatchWins ==
  /\ (Evaluated /\ f.kind = "Symbol" /\ Duplicated(f.tag, call.bindings))
       => call.result = Returned(FirstEntry(f.tag, call.bindings).value)
  /\ (Rendered /\ f.kind = "Symbol" /\ Duplicated(f.tag, call.namings))
       => call.text = FirstEntry(f.tag, call.namings).name
  /\ (Rendered /\ f.kind = "Constant" /\ Duplicated(f.tag, call.namings)
        /\ FirstEntry(f.tag, call.namings).name # <<>>)
       => call.text = FirstEntry(f.tag, call.namings).name

\* a symbol named twice, differently: the first name is the text
C4_Witness ==
  /\ Rendered
  /\ f = Symbol(1)
  /\ call.namings = <<SymbolicBinding(1, <<"x">>), SymbolicBinding(1, <<"(", "z", ")">>)>>
  /\ call.text = <<"x">>

\* a Binding Set that binds the symbol and then has one more entry for it
\* appended at the end, with another value
Shadowing ==
  /\ Evaluated
  /\ f.kind = "Symbol"
  /\ Len(call.bindings) >= 2
  /\ call.bindings[Len(call.bindings)].tag = f.tag
  /\ HasEntry(f.tag, SubSeq(call.bindings, 1, Len(call.bindings) - 1))

\* C5 as stated: the entry appended at the end gives the symbol its value.
C5_AppendedEntryOverrides ==
  Shadowing => call.result = Returned(call.bindings[Len(call.bindings)].value)

\* C5 amended: the entry appended at the end is not used; the symbol keeps the
\* value of the earliest entry with its tag.
C5_AppendedEntryIgnored ==
  Shadowing =>
    call.result =
      Returned(FirstEntry(f.tag, SubSeq(call.bindings, 1, Len(call.bindings) - 1)).value)

\* x bound to 0 and then to 1: evaluate gives 0
C5_Witness ==
  /\ Shadowing
  /\ call.bindings = <<Binding(1, D(0)), Binding(1, D(1))>>
  /\ call.result = Returned(D(0))

\* C6: leaves with the same tag are copies of one another: no two different
\* Symbol or Constant nodes of an expression share a tag.
C6_DistinctNodesDistinctTags ==
  \A a \in Leaves(f), b \in Leaves(f) :
    (IsLeaf(a) /\ IsLeaf(b) /\ a.tag = b.tag) => a = b

\* C7: composing a node with a bare double, with any of the four operators
\* and on either side, gives a binary node whose operands are both nodes.
C7_DoubleOperandIsWrapped ==
  IsBinary(f) => (IsNode(f.lhs) /\ IsNode(f.rhs))

\* C8: a Symbol whose tag has no entry in the Naming Set renders as the empty
\* text, and the binary node above it still renders its parentheses and its
\* operator around it.
C8_UnnamedSymbolRendersEmpty ==
  Rendered =>
    \A n \in SubNodes(f) :
      LET unnamed(x) == x.kind = "Symbol" /\ ~HasEntry(x.tag, call.namings)
      IN /\ unnamed(n) => TextOf(n) = <<>>
         /\ (IsBinary(n) /\ unnamed(n.lhs)) =>
              TextOf(n) = <<"(", " ", OpSymbol(n.kind), " ">> \o TextOf(n.rhs) \o <<")">>
         /\ (IsBinary(n) /\ unnamed(n.rhs)) =>
              TextOf(n) = <<"(">> \o TextOf(n.lhs) \o <<" ", OpSymbol(n.kind), " ", ")">>

\* x / 0.5 with nothing named renders as "( / 0.5)"
C8_Witness ==
  /\ Rendered
  /\ f = Divide(Symbol(1), Constant(2, Half))
  /\ call.namings = <<>>
  /\ call.text = <<"(", " ", "/", " ", "0", ".", "5", ")">>

\* the decimal text of the constants that are declared or wrapped
DecimalText(v) ==
  CASE v = D(10) -> <<"1", "0">>
    [] v = D(2) -> <<"2">>
    [] v = Half -> <<"0", ".", "5">>

\* C9: a Constant renders as the name of the first entry with its tag when
\* that name is not empty, and as the text of its value otherwise: no entry
\* with its tag, or a first entry with the empty name.
C9_ConstantNameOrNumber ==
  (Rendered /\ f.kind = "Constant") =>
    call.text =
      IF HasEntry(f.tag, call.namings) /\ FirstEntry(f.tag, call.namings).name # <<>>
        THEN FirstEntry(f.tag, call.namings).name
        ELSE DecimalText(f.value)

\* the constant 10 named "" first and "pi" second renders as "10"
C9_Witness ==
  /\ Rendered
  /\ f = Constant(3, D(10))
  /\ call.namings = <<SymbolicBinding(3, <<>>), SymbolicBinding(3, <<"p", "i">>)>>
  /\ call.text = <<"1", "0">>

NonFinite(r) == ~r.threw /\ ~IsFinite(r.value)

\* C10: with every symbol bound, a Divide node whose right operand is zero
\* has a value, an infinity (NaN when the left operand is zero or NaN), the
\* call throws nothing, and the infinity or NaN goes on through the sums and
\* products above it.
C10_DivisionByZeroIsAValue ==
  (Evaluated /\ AllBound) =>
    /\ ~call.result.threw
    /\ \A n \in SubNodes(f) :
         (n.kind = "Divide" /\ ~ValueOf(n.rhs).threw /\ IsZero(ValueOf(n.rhs).value)) =>
           LET l == ValueOf(n.lhs).value
               r == ValueOf(n.rhs).value
               q == ValueOf(n)
           IN /\ ~q.threw
              /\ IF IsZero(l) \/ IsNaN(l) THEN IsNaN(q.value)
                 ELSE IsInf(q.value) /\ (q.value.neg <=> (l.neg # r.neg))
    /\ \A n \in SubNodes(f) :
         (n.kind \in {"Add", "Subtract", "Multiply"}
            /\ (NonFinite(ValueOf(n.lhs)) \/ NonFinite(ValueOf(n.rhs))))
           => NonFinite(ValueOf(n))

\* (y / x) + y with x = 0 and y = 1 is plus infinity
C10_Witness ==
  /\ Evaluated
  /\ f = Add(Divide(Symbol(2), Symbol(1)), Symbol(2))
  /\ HasEntry(1, call.bindings) /\ FirstEntry(1, call.bindings).value = D(0)
  /\ HasEntry(2, call.bindings) /\ FirstEntry(2, call.bindings).value = D(1)
  /\ call.result = Returned(PosInf)

====
